---- MODULE Spec2Model ----
(***************************************************************************)
(* Model of the fetch-and-cache client (src/weather_api.py) and of the     *)
(* service facade (src/weather_service.py) of the weather CLI.             *)
(*                                                                         *)
(* Strings that the code transforms (the city name, which is lower-cased   *)
(* for the cache key) are sequences of one-character strings, so that      *)
(* str.lower() is computed character by character.  JSON objects are       *)
(* records, JSON arrays are sequences, a missing key is a missing field.   *)
(* The provider and the transport are the environment: every network call  *)
(* draws its response from Responses.  The clock (time.time) is the        *)
(* variable now, advanced by Tick.                                         *)
(***************************************************************************)
EXTENDS Integers, Sequences, FiniteSets, TLC

VARIABLES
    cache,   \* _cache: kind -> (key -> [timestamp, data])
    now,     \* the value time.time() returns
    last,    \* history: the most recent invocation, its input and its outcome
    mark,    \* history: one earlier fetch that succeeded through the network
    later,   \* history: an invocation has completed after the marked one
    pc,      \* where main() of src/cli.py is: at its prompt, returned, or left by an exception
    out      \* the last command main() read and what it printed for it

vars == <<cache, now, last, mark, later, pc, out>>

----------------------------------------------------------------------------
(* Program constants *)

CACHE_TTL == 600

(* Bounds of the model *)

MaxTime == 1200

\* Amounts of time that may pass between two invocations.
Deltas == {599, 600, 601}

----------------------------------------------------------------------------
(* Strings *)

\* str.lower() on one character of the model's alphabet.
LowerChar(ch) ==
    CASE ch = "P" -> "p"
      [] ch = "A" -> "a"
      [] OTHER    -> ch

\* str.lower(): every character lower-cased, length and order kept.
Lower(s) == [i \in 1..Len(s) |-> LowerChar(s[i])]

\* The city names a caller may pass: two spellings of one city and another city.
Cities == { <<"P", "a">>, <<"p", "A">>, <<"a", "p">> }

Kinds == {"current", "forecast"}

----------------------------------------------------------------------------
(* Provider responses *)

NotJSON == [notjson |-> TRUE]

CurBodyA ==
    [name    |-> <<"P", "a">>,
     main    |-> [temp |-> 20, humidity |-> 45],
     weather |-> << [description |-> "sunny"], [description |-> "haze"] >>,
     wind    |-> [speed |-> 3]]

CurBodyB ==
    [name    |-> <<"A", "p">>,
     main    |-> [temp |-> 45, humidity |-> 20],
     weather |-> << [description |-> "rain"] >>,
     wind    |-> [speed |-> 7]]

\* 'wind' is missing.
CurBodyNoWind ==
    [name    |-> <<"P", "a">>,
     main    |-> [temp |-> 20, humidity |-> 45],
     weather |-> << [description |-> "sunny"] >>]

\* 'weather' is an empty array.
CurBodyNoWeather ==
    [name    |-> <<"P", "a">>,
     main    |-> [temp |-> 20, humidity |-> 45],
     weather |-> << >>,
     wind    |-> [speed |-> 3]]

FcItem(dt, temp, descr) ==
    [dt_txt |-> dt, main |-> [temp |-> temp], weather |-> << [description |-> descr] >>]

\* Two items, the later one first, and a repeated pair of values.
FcBodyA ==
    [city |-> [name |-> <<"P", "a">>],
     list |-> << FcItem("03:00", 2, "cloudy"), FcItem("00:00", 1, "snow"),
                 FcItem("00:00", 1, "snow") >>]

FcBodyB ==
    [city |-> [name |-> <<"A", "p">>],
     list |-> << FcItem("06:00", 4, "windy") >>]

\* The second item has no 'dt_txt'.
FcBodyBadItem ==
    [city |-> [name |-> <<"P", "a">>],
     list |-> << FcItem("00:00", 1, "snow"),
                 [main |-> [temp |-> 2], weather |-> << [description |-> "cloudy"] >>] >>]

Bodies ==
    { CurBodyA, CurBodyB, CurBodyNoWind, CurBodyNoWeather,
      FcBodyA, FcBodyB, FcBodyBadItem, NotJSON }

StatusCodes == {200, 201, 304, 400, 404, 500}

\* What requests.get may raise: a transport failure (a RequestException) or
\* anything else.
Thrown == {"Timeout", "Exception"}

Responses ==
    [thrown : {"none"}, status : StatusCodes, body : Bodies]
      \cup [thrown : Thrown, status : {0}, body : {NotJSON}]

NoResponse == [thrown |-> "nocall", status |-> 0, body |-> NotJSON]

----------------------------------------------------------------------------
(* The client: src/weather_api.py *)

\* Python's None.
NoResult == [none |-> TRUE]

\* What dict.get returns for a key that is not in the cache.
NoEntry == [absent |-> TRUE]

EmptyCache == [k \in Kinds |-> << >>]

\* Variant: the city as the caller spelled it is the key.
CacheKey_AsGiven(city) == city

\* key = city.lower()
CacheKey(city) == Lower(city)

\* _cache[kind].get(key)
CacheGet(c, kind, key) ==
    IF key \in DOMAIN c[kind] THEN c[kind][key] ELSE NoEntry

\* Variant: the window ends one second early.
IsHit_Early(entry, t) ==
    /\ entry # NoEntry
    /\ t - entry.timestamp < CACHE_TTL - 1

\* Variant: an entry exactly CACHE_TTL old is still served.
IsHit_Inclusive(entry, t) ==
    /\ entry # NoEntry
    /\ t - entry.timestamp <= CACHE_TTL

\* entry and (now - entry['timestamp'] < CACHE_TTL)
IsHit(entry, t) ==
    /\ entry # NoEntry
    /\ t - entry.timestamp < CACHE_TTL

\* Variant: a write drops every other entry of its namespace that has expired.
CachePut_Evicting(c, kind, key, t, result) ==
    [c EXCEPT ![kind] =
        [k \in {x \in DOMAIN @ : t - @[x].timestamp < CACHE_TTL} \cup {key} |->
            IF k = key THEN [timestamp |-> t, data |-> result] ELSE @[k]]]

\* Variant: one dict keyed by the city alone, shared by both kinds.
CachePut_Shared(c, kind, key, t, result) ==
    [k2 \in Kinds |->
        [k \in (DOMAIN c[k2]) \cup {key} |->
            IF k = key THEN [timestamp |-> t, data |-> result] ELSE c[k2][k]]]

\* _cache[kind][key] = {'timestamp': now, 'data': result}
CachePut(c, kind, key, t, result) ==
    [c EXCEPT ![kind] =
        [k \in (DOMAIN @) \cup {key} |->
            IF k = key THEN [timestamp |-> t, data |-> result] ELSE @[k]]]

\* requests.Response.raise_for_status(): raises HTTPError for a client error
\* (4xx) or a server error (5xx) status and returns for every other status.
raise_for_status(status) == 400 <= status /\ status < 600

Raise(exc) == [exc |-> exc, result |-> NoResult]

Return(result) == [exc |-> "none", result |-> result]

\* Variant: the condition is taken from the last entry of 'weather'.
CurrentResult_LastWeather(data) ==
    IF {"name", "main", "weather", "wind"} \subseteq DOMAIN data
       /\ Len(data.weather) > 0
    THEN Return([city       |-> data.name,
                 temp       |-> data.main.temp,
                 condition  |-> data.weather[Len(data.weather)].description,
                 humidity   |-> data.main.humidity,
                 wind_speed |-> data.wind.speed])
    ELSE Raise("KeyError")

\* The dict literal of fetch_current_weather, evaluated in source order; a
\* missing key raises KeyError and an empty 'weather' array IndexError.
CurrentResult(data) ==
    IF "name" \notin DOMAIN data THEN Raise("KeyError")
    ELSE IF "main" \notin DOMAIN data THEN Raise("KeyError")
    ELSE IF "temp" \notin DOMAIN data.main THEN Raise("KeyError")
    ELSE IF "weather" \notin DOMAIN data THEN Raise("KeyError")
    ELSE IF Len(data.weather) = 0 THEN Raise("IndexError")
    ELSE IF "description" \notin DOMAIN data.weather[1] THEN Raise("KeyError")
    ELSE IF "humidity" \notin DOMAIN data.main THEN Raise("KeyError")
    ELSE IF "wind" \notin DOMAIN data THEN Raise("KeyError")
    ELSE IF "speed" \notin DOMAIN data.wind THEN Raise("KeyError")
    ELSE Return([city       |-> data.name,
                 temp       |-> data.main.temp,
                 condition  |-> data.weather[1].description,
                 humidity   |-> data.main.humidity,
                 wind_speed |-> data.wind.speed])

\* The dict appended for one item of data['list'].
ForecastEntry(item) ==
    IF "dt_txt" \notin DOMAIN item THEN Raise("KeyError")
    ELSE IF "main" \notin DOMAIN item THEN Raise("KeyError")
    ELSE IF "temp" \notin DOMAIN item.main THEN Raise("KeyError")
    ELSE IF "weather" \notin DOMAIN item THEN Raise("KeyError")
    ELSE IF Len(item.weather) = 0 THEN Raise("IndexError")
    ELSE IF "description" \notin DOMAIN item.weather[1] THEN Raise("KeyError")
    ELSE Return([datetime  |-> item.dt_txt,
                 temp      |-> item.main.temp,
                 condition |-> item.weather[1].description])

\* Variant: an item that cannot be normalised is skipped.
RECURSIVE ForecastLoop_SkipBad(_, _, _)
ForecastLoop_SkipBad(list, i, forecasts) ==
    IF i > Len(list) THEN Return(forecasts)
    ELSE LET e == ForecastEntry(list[i])
         IN  IF e.exc # "none" THEN ForecastLoop_SkipBad(list, i + 1, forecasts)
             ELSE ForecastLoop_SkipBad(list, i + 1, Append(forecasts, e.result))

\* Variant: an entry equal to one already appended is skipped.
RECURSIVE ForecastLoop_Dedup(_, _, _)
ForecastLoop_Dedup(list, i, forecasts) ==
    IF i > Len(list) THEN Return(forecasts)
    ELSE LET e == ForecastEntry(list[i])
         IN  IF e.exc # "none" THEN Raise(e.exc)
             ELSE IF \E j \in 1..Len(forecasts) : forecasts[j] = e.result
             THEN ForecastLoop_Dedup(list, i + 1, forecasts)
             ELSE ForecastLoop_Dedup(list, i + 1, Append(forecasts, e.result))

\* for item in data['list']: forecasts.append({...}), from item i on, with
\* the entries appended so far.
RECURSIVE ForecastLoop(_, _, _)
ForecastLoop(list, i, forecasts) ==
    IF i > Len(list) THEN Return(forecasts)
    ELSE LET e == ForecastEntry(list[i])
         IN  IF e.exc # "none" THEN Raise(e.exc)
             ELSE ForecastLoop(list, i + 1, Append(forecasts, e.result))

\* The normalisation of a forecast body: the loop, then the result dict.
ForecastResult(data) ==
    IF "list" \notin DOMAIN data THEN Raise("KeyError")
    ELSE LET f == ForecastLoop(data.list, 1, << >>)
         IN  IF f.exc # "none" THEN Raise(f.exc)
             ELSE IF "city" \notin DOMAIN data THEN Raise("KeyError")
             ELSE IF "name" \notin DOMAIN data.city THEN Raise("KeyError")
             ELSE Return([city |-> data.city.name, forecasts |-> f.result])

\* Variant: raise_for_status() comes before the test for 404.
TryResponse_StatusFirst(resp) ==
    IF resp.thrown # "none" THEN resp.thrown
    ELSE IF raise_for_status(resp.status) THEN "HTTPError"
    ELSE IF resp.status = 404 THEN "CityNotFoundError"
    ELSE IF resp.body = NotJSON THEN "JSONDecodeError"
    ELSE "none"

\* The statements of the try block up to resp.json(): what they raise, or
\* "none" when the body has been decoded.
TryResponse(resp) ==
    IF resp.thrown # "none" THEN resp.thrown
    ELSE IF resp.status = 404 THEN "CityNotFoundError"
    ELSE IF raise_for_status(resp.status) THEN "HTTPError"
    ELSE IF resp.body = NotJSON THEN "JSONDecodeError"
    ELSE "none"

\* The except clauses, in source order: CityNotFoundError is re-raised, every
\* other exception becomes a WeatherAPIError.
ExceptClauses(exc) ==
    IF exc = "CityNotFoundError" THEN "CityNotFoundError"
    ELSE IF exc = "HTTPError" THEN "WeatherAPIError"
    ELSE IF exc \in {"Timeout", "JSONDecodeError"} THEN "WeatherAPIError"
    ELSE "WeatherAPIError"

\* The body of a normalised response of the given kind.
Normalise(kind, data) ==
    IF kind = "current" THEN CurrentResult(data) ELSE ForecastResult(data)

\* Variant: a failure is cached too, as an entry without data.
Fetch_NegativeCache(kind, city, t, c, resp) ==
    LET key   == CacheKey(city)
        entry == CacheGet(c, kind, key)
    IN  IF IsHit(entry, t)
        THEN [calls |-> 0, resp |-> NoResponse, raised |-> "none",
              result |-> entry.data, cache |-> c]
        ELSE LET pre == TryResponse(resp)
                 r   == IF pre # "none" THEN Raise(pre)
                        ELSE Normalise(kind, resp.body)
             IN  [calls |-> 1, resp |-> resp,
                  raised |-> IF r.exc = "none" THEN "none" ELSE ExceptClauses(r.exc),
                  result |-> r.result,
                  cache |-> CachePut(c, kind, key, t, r.result)]

\* Variant: when the network call fails, an entry that is there is served.
Fetch_StaleFallback(kind, city, t, c, resp) ==
    LET key   == CacheKey(city)
        entry == CacheGet(c, kind, key)
    IN  IF IsHit(entry, t)
        THEN [calls |-> 0, resp |-> NoResponse, raised |-> "none",
              result |-> entry.data, cache |-> c]
        ELSE LET pre == TryResponse(resp)
                 r   == IF pre # "none" THEN Raise(pre)
                        ELSE Normalise(kind, resp.body)
             IN  IF r.exc = "none"
                 THEN [calls |-> 1, resp |-> resp, raised |-> "none",
                       result |-> r.result,
                       cache |-> CachePut(c, kind, key, t, r.result)]
                 ELSE IF entry # NoEntry
                 THEN [calls |-> 1, resp |-> resp, raised |-> "none",
                       result |-> entry.data, cache |-> c]
                 ELSE [calls |-> 1, resp |-> resp,
                       raised |-> ExceptClauses(r.exc),
                       result |-> NoResult, cache |-> c]

\* Variant: a hit renews the timestamp of the entry it serves.
Fetch_TouchOnHit(kind, city, t, c, resp) ==
    LET key   == CacheKey(city)
        entry == CacheGet(c, kind, key)
    IN  IF IsHit(entry, t)
        THEN [calls |-> 0, resp |-> NoResponse, raised |-> "none",
              result |-> entry.data,
              cache |-> CachePut(c, kind, key, t, entry.data)]
        ELSE LET pre == TryResponse(resp)
                 r   == IF pre # "none" THEN Raise(pre)
                        ELSE Normalise(kind, resp.body)
             IN  IF r.exc = "none"
                 THEN [calls |-> 1, resp |-> resp, raised |-> "none",
                       result |-> r.result,
                       cache |-> CachePut(c, kind, key, t, r.result)]
                 ELSE [calls |-> 1, resp |-> resp,
                       raised |-> ExceptClauses(r.exc),
                       result |-> NoResult, cache |-> c]

\* Variant: a failed network call is tried once more before the error.
Fetch_Retry(kind, city, t, c, resp) ==
    LET key   == CacheKey(city)
        entry == CacheGet(c, kind, key)
    IN  IF IsHit(entry, t)
        THEN [calls |-> 0, resp |-> NoResponse, raised |-> "none",
              result |-> entry.data, cache |-> c]
        ELSE LET pre == TryResponse(resp)
                 r   == IF pre # "none" THEN Raise(pre)
                        ELSE Normalise(kind, resp.body)
             IN  IF r.exc = "none"
                 THEN [calls |-> 1, resp |-> resp, raised |-> "none",
                       result |-> r.result,
                       cache |-> CachePut(c, kind, key, t, r.result)]
                 ELSE [calls |-> 2, resp |-> resp,
                       raised |-> ExceptClauses(r.exc),
                       result |-> NoResult, cache |-> c]

\* One invocation of fetch_current_weather (kind "current") or fetch_forecast
\* (kind "forecast"), whose bodies differ in the cache namespace and in the
\* normalisation only: the clock value t it reads, the cache c it finds and
\* the response resp its network call would get.
Fetch(kind, city, t, c, resp) ==
    LET key   == CacheKey(city)
        entry == CacheGet(c, kind, key)
    IN  IF IsHit(entry, t)
        THEN [calls |-> 0, resp |-> NoResponse, raised |-> "none",
              result |-> entry.data, cache |-> c]
        ELSE LET pre == TryResponse(resp)
                 r   == IF pre # "none" THEN Raise(pre)
                        ELSE Normalise(kind, resp.body)
             IN  IF r.exc = "none"
                 THEN [calls |-> 1, resp |-> resp, raised |-> "none",
                       result |-> r.result,
                       cache |-> CachePut(c, kind, key, t, r.result)]
                 ELSE [calls |-> 1, resp |-> resp,
                       raised |-> ExceptClauses(r.exc),
                       result |-> NoResult, cache |-> c]

----------------------------------------------------------------------------
(* State machine *)

NoMark ==
    [kind |-> "none", city |-> << >>, time |-> 0, resp |-> NoResponse,
     result |-> NoResult]

NoCall ==
    [layer |-> "none", kind |-> "none", city |-> << >>, time |-> 0, calls |-> 0,
     took |-> 0, resp |-> NoResponse, raised |-> "none", result |-> NoResult]

\* main() has read no command yet.
NoCommand == [command |-> "", arg |-> << >>, printed |-> "welcome"]

Init ==
    /\ cache = EmptyCache
    /\ now = 0
    /\ last = NoCall
    /\ mark = NoMark
    /\ later = FALSE
    /\ pc = "prompt"
    /\ out = NoCommand

\* Variant: the clock is read when the response has arrived.
TimeRead_AfterResponse(t, elapsed) == t + elapsed

\* now = time.time(): the one clock value an invocation uses, read at its
\* start, when the clock shows t and the network call will take `elapsed`.
TimeRead(t, elapsed) == t

\* The invocation o of kind `kind` for `city` through `layer` completes.  The
\* history either keeps its mark or, when o succeeded through the network,
\* may mark o instead.  A network call takes `elapsed` seconds.
Complete(layer, kind, city, o, keep, elapsed) ==
    /\ cache' = o.cache
    /\ last' = [layer |-> layer, kind |-> kind, city |-> city,
                time |-> TimeRead(now, elapsed),
                calls |-> o.calls, took |-> IF o.calls = 0 THEN 0 ELSE elapsed,
                resp |-> o.resp, raised |-> o.raised, result |-> o.result]
    /\ IF keep \/ o.calls = 0 \/ o.raised # "none"
       THEN /\ mark' = mark
            /\ later' = (mark # NoMark)
       ELSE /\ mark' = [kind |-> kind, city |-> city,
                        time |-> TimeRead(now, elapsed),
                        resp |-> o.resp, result |-> o.result]
            /\ later' = FALSE
    /\ now' = IF o.calls = 0 THEN now ELSE now + elapsed

fetch_current_weather(city, resp, keep, elapsed) ==
    /\ now + elapsed <= MaxTime
    /\ Complete("client", "current", city,
                Fetch("current", city, TimeRead(now, elapsed), cache, resp),
                keep, elapsed)
    /\ UNCHANGED <<pc, out>>

fetch_forecast(city, resp, keep, elapsed) ==
    /\ now + elapsed <= MaxTime
    /\ Complete("client", "forecast", city,
                Fetch("forecast", city, TimeRead(now, elapsed), cache, resp),
                keep, elapsed)
    /\ UNCHANGED <<pc, out>>

\* Variant: the facade catches the client's exceptions and returns None.
Get_ReturnsNone(kind, city, t, c, resp) ==
    [Fetch(kind, city, t, c, resp) EXCEPT !.raised = "none"]

\* The body of get_current_weather and of get_forecast: return
\* fetch_current_weather(city), return fetch_forecast(city).  The client's
\* result is returned and its exception propagates.
Get(kind, city, t, c, resp) == Fetch(kind, city, t, c, resp)

get_current_weather(city, resp, keep, elapsed) ==
    /\ now + elapsed <= MaxTime
    /\ Complete("facade", "current", city,
                Get("current", city, TimeRead(now, elapsed), cache, resp),
                keep, elapsed)
    /\ UNCHANGED <<pc, out>>

get_forecast(city, resp, keep, elapsed) ==
    /\ now + elapsed <= MaxTime
    /\ Complete("facade", "forecast", city,
                Get("forecast", city, TimeRead(now, elapsed), cache, resp),
                keep, elapsed)
    /\ UNCHANGED <<pc, out>>

----------------------------------------------------------------------------
(* The command loop: src/cli.py *)

\* The first word of a line of input, stripped and lower-cased ("" for an
\* empty line), as main() compares it.
Commands == {"", "quit", "exit", "q", "help", "weather", "forecast", "other"}

\* What display_current_weather prints: `not weather` holds for None only,
\* as a snapshot is a non-empty dict.
display_current_weather(city, weather) ==
    IF weather = NoResult THEN "could_not_fetch_weather" ELSE "current_weather"

\* What display_forecast prints: the message also for an empty 'forecasts'.
display_forecast(city, forecast) ==
    IF forecast = NoResult THEN "could_not_fetch_forecast"
    ELSE IF Len(forecast.forecasts) = 0 THEN "could_not_fetch_forecast"
    ELSE "forecast"

\* weather = get_current_weather(arg); display_current_weather(arg, weather)
\* and the same for a forecast.  An exception of the facade is caught nowhere
\* in main() nor in src/main.py: it ends the loop before anything is printed.
Lookup(command, kind, arg, resp) ==
    LET o == Get(kind, arg, TimeRead(now, 0), cache, resp)
    IN  /\ Complete("cli", kind, arg, o, TRUE, 0)
        /\ IF o.raised # "none"
           THEN /\ pc' = "raised"
                /\ out' = [command |-> command, arg |-> arg, printed |-> "nothing"]
           ELSE /\ pc' = "prompt"
                /\ out' = [command |-> command, arg |-> arg,
                           printed |-> IF kind = "current"
                                       THEN display_current_weather(arg, o.result)
                                       ELSE display_forecast(arg, o.result)]

\* One turn of the while loop of main(): a line is read and its command run.
main(command, arg, resp) ==
    /\ pc = "prompt"
    /\ IF command \in {"weather", "forecast"} /\ arg # << >>
       THEN Lookup(command, IF command = "weather" THEN "current" ELSE "forecast",
                   arg, resp)
       ELSE /\ pc' = IF command \in {"quit", "exit", "q"} THEN "returned" ELSE "prompt"
            /\ out' = [command |-> command, arg |-> arg,
                       printed |-> CASE command = "" -> "nothing"
                                     [] command \in {"quit", "exit", "q"} -> "goodbye"
                                     [] command = "help" -> "help"
                                     [] command = "weather" -> "usage_weather"
                                     [] command = "forecast" -> "usage_forecast"
                                     [] OTHER -> "unknown_command"]
            /\ UNCHANGED <<cache, now, last, mark, later>>

\* Time passes between two invocations.  The clock is taken not to run
\* backwards, so a later invocation never reads an earlier time.
Tick ==
    \E d \in Deltas :
        /\ now + d <= MaxTime
        /\ now' = now + d
        /\ UNCHANGED <<cache, last, mark, later, pc, out>>

----------------------------------------------------------------------------
(* Environments.  The whole program under every input is too large to        *)
(* enumerate, so each specification runs the same operations under one part  *)
(* of the inputs.                                                            *)

Ok(body) == [thrown |-> "none", status |-> 200, body |-> body]

ServerError == [thrown |-> "none", status |-> 500, body |-> NotJSON]

NotFound == [thrown |-> "none", status |-> 404, body |-> NotJSON]

\* Two payloads of each kind and one failure.
BasicResponses ==
    { Ok(CurBodyA), Ok(CurBodyB), Ok(FcBodyA), Ok(FcBodyB), ServerError }

\* Two spellings of one city.
OneCity == { <<"P", "a">>, <<"p", "A">> }

\* The client under both spellings of one city: expiry and reuse of an entry.
NextTTL ==
    \/ \E city \in OneCity, resp \in BasicResponses, keep \in BOOLEAN :
           fetch_current_weather(city, resp, keep, 0)
    \/ \E city \in OneCity, resp \in BasicResponses, keep \in BOOLEAN :
           fetch_forecast(city, resp, keep, 0)
    \/ Tick

SpecTTL == Init /\ [][NextTTL]_vars

\* The client under every response of the provider, for one spelling.
NextResp ==
    \/ \E resp \in Responses : fetch_current_weather(<<"P", "a">>, resp, TRUE, 0)
    \/ \E resp \in Responses : fetch_forecast(<<"P", "a">>, resp, TRUE, 0)
    \/ Tick

SpecResp == Init /\ [][NextResp]_vars

\* The client under several cities, one payload of each kind and two failures.
NextFrame ==
    \/ \E city \in Cities, resp \in {Ok(CurBodyA), Ok(FcBodyA), NotFound, ServerError} :
           fetch_current_weather(city, resp, TRUE, 0)
    \/ \E city \in Cities, resp \in {Ok(CurBodyA), Ok(FcBodyA), NotFound, ServerError} :
           fetch_forecast(city, resp, TRUE, 0)
    \/ Tick

SpecFrame == Init /\ [][NextFrame]_vars

\* How long a network call may take: no time, or as long as the clock steps.
Durations == {0} \cup Deltas

\* The client for one spelling, with network calls that take time.
NextClock ==
    \/ \E resp \in {Ok(CurBodyA), Ok(CurBodyB), ServerError}, elapsed \in Durations :
           fetch_current_weather(<<"P", "a">>, resp, TRUE, elapsed)
    \/ \E resp \in {Ok(FcBodyA), Ok(FcBodyB), ServerError}, elapsed \in Durations :
           fetch_forecast(<<"P", "a">>, resp, TRUE, elapsed)
    \/ Tick

SpecClock == Init /\ [][NextClock]_vars

\* A forecast with no items.
FcBodyEmpty == [city |-> [name |-> <<"P", "a">>], list |-> << >>]

\* The command loop over the facade and the client.
NextCLI ==
    \/ \E command \in Commands, arg \in {<< >>, <<"P", "a">>, <<"p", "A">>},
          resp \in {Ok(CurBodyA), Ok(FcBodyA), Ok(FcBodyEmpty), NotFound, ServerError} :
           main(command, arg, resp)
    \/ Tick

SpecCLI == Init /\ [][NextCLI]_vars

\* The facade and the client side by side.
Next ==
    \/ \E resp \in BasicResponses \cup {NotFound} :
           fetch_current_weather(<<"P", "a">>, resp, TRUE, 0)
    \/ \E resp \in BasicResponses \cup {NotFound} :
           fetch_forecast(<<"P", "a">>, resp, TRUE, 0)
    \/ \E resp \in BasicResponses \cup {NotFound} :
           get_current_weather(<<"P", "a">>, resp, TRUE, 0)
    \/ \E resp \in BasicResponses \cup {NotFound} :
           get_forecast(<<"P", "a">>, resp, TRUE, 0)
    \/ Tick

Spec == Init /\ [][Next]_vars

----------------------------------------------------------------------------
(* Properties *)

\* The step is an invocation (of kind last'.kind for last'.city), not a Tick.
Invoked == now' = now

\* The entry a fetch of `kind` for `city` looks up in cache c.
EntryOf(c, kind, city) == CacheGet(c, kind, Lower(city))

\* The city name in a provider body of the given kind.
ProviderName(kind, body) ==
    IF kind = "current" THEN body.name ELSE body.city.name

\* The last invocation came after the marked fetch and asked for the same
\* kind and the same key.
AfterMarkSameKey ==
    /\ mark # NoMark
    /\ later
    /\ last.kind = mark.kind
    /\ Lower(last.city) = Lower(mark.city)

\* C1: once a fetch at T0 has succeeded through the network, a later fetch of
\* the same kind and city at T1 with T1 - T0 < 600 issues no network call and
\* returns the result of the fetch at T0.
C1_HitWithinTTL ==
    (AfterMarkSameKey /\ last.city = mark.city
       /\ last.time - mark.time < CACHE_TTL)
    => (last.calls = 0 /\ last.raised = "none" /\ last.result = mark.result)

C1_Witness ==
    /\ AfterMarkSameKey
    /\ last.city = mark.city
    /\ last.time - mark.time = CACHE_TTL - 1
    /\ last.calls = 0
    /\ last.result = mark.result

\* C2: a fetch made when the entry of its kind and key is 600 seconds old or
\* older issues a network call, and when that call succeeds the entry becomes
\* (time of this fetch, payload of this response).
C2_ExpiredRefetch ==
    [][ (/\ Invoked
         /\ EntryOf(cache, last'.kind, last'.city) # NoEntry
         /\ now - EntryOf(cache, last'.kind, last'.city).timestamp >= CACHE_TTL)
        => (/\ last'.calls = 1
            /\ last'.resp \in Responses
            /\ last'.raised = "none" =>
                 /\ EntryOf(cache', last'.kind, last'.city)
                       = [timestamp |-> now, data |-> last'.result]
                 /\ last'.result.city = ProviderName(last'.kind, last'.resp.body)) ]_vars

\* An entry exactly 600 seconds old is refetched and overwritten by an equal payload.
C2_Witness ==
    /\ AfterMarkSameKey
    /\ last.time - mark.time = CACHE_TTL
    /\ last.calls = 1
    /\ last.raised = "none"
    /\ last.result = mark.result
    /\ EntryOf(cache, last.kind, last.city).timestamp = last.time

\* C3: a network call answered with status 404 ends in CityNotFoundError.
C3_NotFoundMapping ==
    (last.resp.thrown = "none" /\ last.resp.status = 404)
    => last.raised = "CityNotFoundError"

\* A 404 with a well-formed body, on an expired entry.
C3_Witness ==
    /\ last.resp.thrown = "none"
    /\ last.resp.status = 404
    /\ last.resp.body \in {CurBodyA, FcBodyA}
    /\ EntryOf(cache, last.kind, last.city) # NoEntry
    /\ last.raised = "CityNotFoundError"

\* C4: a network call that throws, or is answered with a status that is
\* neither 404 nor 2xx, ends in a WeatherAPIError.
C4_GenericFailureMapping ==
    (\/ last.resp.thrown \in Thrown
     \/ /\ last.resp.thrown = "none"
        /\ last.resp.status # 404
        /\ ~(200 <= last.resp.status /\ last.resp.status < 300))
    => last.raised = "WeatherAPIError"

\* C5: a fetch under another spelling of a city fetched less than 600 seconds
\* before issues no network call, and the city of its result is the name the
\* provider gave.
C5_CaseInsensitiveKey ==
    (AfterMarkSameKey /\ last.city # mark.city
       /\ last.time - mark.time < CACHE_TTL)
    => (/\ last.calls = 0
        /\ last.raised = "none"
        /\ last.result = mark.result
        /\ last.result.city = ProviderName(mark.kind, mark.resp.body))

\* The provider's name is neither spelling of the caller nor the key.
C5_Witness ==
    /\ AfterMarkSameKey
    /\ last.city # mark.city
    /\ last.time - mark.time = CACHE_TTL - 1
    /\ last.calls = 0
    /\ last.result.city = ProviderName(mark.kind, mark.resp.body)
    /\ last.result.city \notin {last.city, mark.city, Lower(last.city)}

\* C6: get_current_weather and get_forecast return None when the fetch fails.
C6_FacadeReturnsNone ==
    (/\ last.layer = "facade"
     /\ last.resp.thrown = "none"
     /\ last.resp.status \in {404, 500})
    => (last.raised = "none" /\ last.result = NoResult)

\* C7: an entry is created or overwritten only by a fetch that ends in
\* success; a fetch that ends in an error leaves both caches as they were, and
\* a fetch that finds no valid entry issues a network call whatever failed before.
C7_FailuresNotCached ==
    [][ Invoked =>
          /\ last'.raised # "none" => cache' = cache
          /\ cache' # cache => (last'.raised = "none" /\ last'.calls = 1)
          /\ ~IsHit(EntryOf(cache, last'.kind, last'.city), now) => last'.calls = 1
      ]_vars

\* A fetch on an expired entry failed, with two keys cached in one namespace.
C7_Witness ==
    /\ last.raised \in {"CityNotFoundError", "WeatherAPIError"}
    /\ last.calls = 1
    /\ EntryOf(cache, last.kind, last.city) # NoEntry
    /\ last.time - EntryOf(cache, last.kind, last.city).timestamp >= CACHE_TTL
    /\ \E k \in Kinds : Cardinality(DOMAIN cache[k]) = 2

\* C8: the forecasts of a successful fetch_forecast through the network are
\* the items of the provider's list, one for one and in the provider's order.
C8_ForecastListPreserved ==
    (last.kind = "forecast" /\ last.calls = 1 /\ last.raised = "none")
    => LET list == last.resp.body.list
           f    == last.result.forecasts
       IN  /\ Len(f) = Len(list)
           /\ \A i \in 1..Len(list) :
                  f[i] = [datetime  |-> list[i].dt_txt,
                          temp      |-> list[i].main.temp,
                          condition |-> list[i].weather[1].description]

\* A list that is not sorted and holds the same item twice.
C8_Witness ==
    /\ last.kind = "forecast"
    /\ last.calls = 1
    /\ last.raised = "none"
    /\ last.resp.body = FcBodyA
    /\ Len(last.result.forecasts) = 3

\* C9: the snapshot of a successful fetch_current_weather through the network
\* with a 2xx response is the five fields of the body, and the entry under
\* lower(city) holds that snapshot.
C9_SnapshotNormalised ==
    (/\ last.kind = "current"
     /\ last.calls = 1
     /\ last.raised = "none"
     /\ 200 <= last.resp.status /\ last.resp.status < 300)
    => LET data == last.resp.body
       IN  /\ last.result = [city       |-> data.name,
                             temp       |-> data.main.temp,
                             condition  |-> data.weather[1].description,
                             humidity   |-> data.main.humidity,
                             wind_speed |-> data.wind.speed]
           /\ EntryOf(cache, "current", last.city) # NoEntry
           /\ EntryOf(cache, "current", last.city).data = last.result

\* A body with two entries of 'weather', after time has passed.
C9_Witness ==
    /\ last.kind = "current"
    /\ last.calls = 1
    /\ last.raised = "none"
    /\ last.resp.status = 201
    /\ last.resp.body = CurBodyA
    /\ last.result.condition = "sunny"
    /\ now > last.time

\* C10: a fetch of kind k for city c changes no entry but (k, lower(c)), and
\* it is served from the cache only by a valid entry of its own kind.
C10_OnlyOwnEntry ==
    [][ Invoked =>
          /\ \A k \in Kinds :
               /\ \A key \in DOMAIN cache[k] :
                      (k # last'.kind \/ key # Lower(last'.city))
                      => (key \in DOMAIN cache'[k] /\ cache'[k][key] = cache[k][key])
               /\ \A key \in (DOMAIN cache'[k]) \ (DOMAIN cache[k]) :
                      k = last'.kind /\ key = Lower(last'.city)
          /\ last'.calls = 0 =>
               /\ IsHit(EntryOf(cache, last'.kind, last'.city), now)
               /\ last'.result = EntryOf(cache, last'.kind, last'.city).data
      ]_vars

\* A forecast fetch went to the network although the current-conditions cache
\* held a valid entry for the same key, and a second key was cached.
C10_Witness ==
    /\ last.kind = "forecast"
    /\ last.calls = 1
    /\ last.raised = "none"
    /\ EntryOf(cache, "current", last.city) # NoEntry
    /\ last.time - EntryOf(cache, "current", last.city).timestamp < CACHE_TTL
    /\ EntryOf(cache, "current", last.city).data # last.result
    /\ Cardinality(DOMAIN cache["current"]) = 2

\* The body is a JSON object of the shape the endpoint of `kind` documents.
WellFormed(kind, body) ==
    IF kind = "current"
    THEN /\ {"name", "main", "weather", "wind"} \subseteq DOMAIN body
         /\ {"temp", "humidity"} \subseteq DOMAIN body.main
         /\ "speed" \in DOMAIN body.wind
         /\ Len(body.weather) > 0
         /\ "description" \in DOMAIN body.weather[1]
    ELSE /\ {"city", "list"} \subseteq DOMAIN body
         /\ "name" \in DOMAIN body.city
         /\ \A i \in 1..Len(body.list) :
                /\ {"dt_txt", "main", "weather"} \subseteq DOMAIN body.list[i]
                /\ "temp" \in DOMAIN body.list[i].main
                /\ Len(body.list[i].weather) > 0
                /\ "description" \in DOMAIN body.list[i].weather[1]

\* The result the specification gives for a well-formed body.
PayloadOf(kind, body) ==
    IF kind = "current"
    THEN [city       |-> body.name,
          temp       |-> body.main.temp,
          condition  |-> body.weather[1].description,
          humidity   |-> body.main.humidity,
          wind_speed |-> body.wind.speed]
    ELSE [city      |-> body.city.name,
          forecasts |-> [i \in 1..Len(body.list) |->
                            [datetime  |-> body.list[i].dt_txt,
                             temp      |-> body.list[i].main.temp,
                             condition |-> body.list[i].weather[1].description]]]

\* C11: every successful return is the payload of this invocation's own
\* network call or the data of an entry less than 600 seconds old; a fetch on
\* an expired entry whose network call fails returns nothing.
C11_NoStaleData ==
    [][ Invoked =>
          LET e == EntryOf(cache, last'.kind, last'.city)
          IN  /\ last'.raised = "none" =>
                   \/ /\ last'.calls = 1
                      /\ last'.resp \in Responses
                      /\ WellFormed(last'.kind, last'.resp.body)
                      /\ last'.result = PayloadOf(last'.kind, last'.resp.body)
                   \/ /\ last'.calls = 0
                      /\ e # NoEntry
                      /\ now - e.timestamp < CACHE_TTL
                      /\ last'.result = e.data
              /\ last'.raised # "none" => last'.result = NoResult
      ]_vars

\* A fetch on an expired entry failed and returned nothing.
C11_Witness ==
    /\ last.calls = 1
    /\ last.raised = "WeatherAPIError"
    /\ last.result = NoResult
    /\ EntryOf(cache, last.kind, last.city) # NoEntry
    /\ last.time - EntryOf(cache, last.kind, last.city).timestamp >= CACHE_TTL
    /\ last.resp = ServerError

\* C12: no step removes a key from a cache, and an entry keeps its timestamp
\* and data, expired or not, until a successful network fetch for its own
\* kind and key overwrites it.
C12_NeverDeleted ==
    [][ \A k \in Kinds : \A key \in DOMAIN cache[k] :
          /\ key \in DOMAIN cache'[k]
          /\ cache'[k][key] # cache[k][key] =>
               /\ last'.calls = 1
               /\ last'.raised = "none"
               /\ last'.kind = k
               /\ Lower(last'.city) = key
               /\ cache'[k][key] = [timestamp |-> last'.time, data |-> last'.result]
      ]_vars

\* An entry twice the window old is still there, after a failed fetch for its
\* key and beside a younger entry of the same namespace.
C12_Witness ==
    \E k \in Kinds : \E key \in DOMAIN cache[k] : \E other \in DOMAIN cache[k] :
        /\ now - cache[k][key].timestamp >= 2 * CACHE_TTL
        /\ cache[k][other].timestamp > cache[k][key].timestamp
        /\ last.kind = k
        /\ Lower(last.city) = key
        /\ last.raised # "none"
        /\ last.time - cache[k][key].timestamp >= CACHE_TTL

\* C13: a 2xx response whose body cannot be normalised ends in a
\* WeatherAPIError without a result, and writes nothing to the cache.
C13_MalformedBody ==
    [][ (/\ Invoked
         /\ last'.calls = 1
         /\ last'.resp.thrown = "none"
         /\ 200 <= last'.resp.status /\ last'.resp.status < 300
         /\ ~WellFormed(last'.kind, last'.resp.body))
        => (/\ last'.raised = "WeatherAPIError"
            /\ last'.result = NoResult
            /\ cache' = cache) ]_vars

\* A forecast whose second item is malformed, on an expired entry that stays.
C13_Witness ==
    /\ last.kind = "forecast"
    /\ last.resp.thrown = "none"
    /\ last.resp.status = 201
    /\ last.resp.body = FcBodyBadItem
    /\ last.raised = "WeatherAPIError"
    /\ EntryOf(cache, "forecast", last.city) # NoEntry
    /\ EntryOf(cache, "forecast", last.city).data = PayloadOf("forecast", FcBodyA)
    /\ EntryOf(cache, "forecast", last.city).timestamp < last.time

\* C14: a fetch served from the cache leaves the cache as it was, so the
\* window of an entry runs from the network fetch that stored it: a hit is
\* less than 600 seconds after the timestamp, and a fetch 600 seconds or more
\* after it goes to the network.
C14_HitKeepsTimestamp ==
    [][ Invoked =>
          LET e == EntryOf(cache, last'.kind, last'.city)
          IN  /\ last'.calls = 0 =>
                   /\ cache' = cache
                   /\ e # NoEntry
                   /\ now - e.timestamp < CACHE_TTL
              /\ (e # NoEntry /\ now - e.timestamp >= CACHE_TTL) => last'.calls = 1
      ]_vars

\* A hit 599 seconds after the marked network fetch left the timestamp of
\* that fetch in the entry.
C14_Witness ==
    /\ AfterMarkSameKey
    /\ last.calls = 0
    /\ last.time = mark.time + CACHE_TTL - 1
    /\ EntryOf(cache, last.kind, last.city).timestamp = mark.time
    /\ EntryOf(cache, last.kind, last.city).data = mark.result

\* C15: an invocation issues no network call when a valid entry exists for
\* its key and exactly one otherwise, also when that call fails.
C15_AtMostOneCall ==
    [][ Invoked =>
          LET e == EntryOf(cache, last'.kind, last'.city)
          IN  last'.calls = IF e # NoEntry /\ now - e.timestamp < CACHE_TTL
                            THEN 0 ELSE 1
      ]_vars

\* A network call that timed out was the only call of its invocation.
C15_Witness ==
    /\ last.resp.thrown = "Timeout"
    /\ last.calls = 1
    /\ last.raised = "WeatherAPIError"
    /\ EntryOf(cache, last.kind, last.city) # NoEntry

C17_FailedLookupKeepsLoop ==
    /\ (/\ out.command \in {"weather", "forecast"}
        /\ out.arg # << >>
        /\ last.calls = 1
        /\ last.resp \in {NotFound, ServerError})
       => (/\ pc = "prompt"
           /\ out.printed = IF out.command = "weather"
                            THEN "could_not_fetch_weather"
                            ELSE "could_not_fetch_forecast")
    /\ pc # "prompt" => out.command \in {"quit", "exit", "q"}

\* C18: an invocation, hit or miss, works with the clock value read at its
\* start; a new entry is stamped with that value, not with the time at which
\* the response arrived, so no timestamp in the cache is later than the clock.
C18_TimestampReadBeforeCall ==
    [][ /\ (last' # last \/ cache' # cache) =>
             /\ last'.time = now
             /\ now' = now + last'.took
             /\ cache' # cache =>
                  EntryOf(cache', last'.kind, last'.city)
                     = [timestamp |-> now, data |-> last'.result]
        /\ \A k \in Kinds : \A key \in DOMAIN cache'[k] :
               cache'[k][key].timestamp <= now'
      ]_vars

\* A network call took 600 seconds: its entry carries the time before the
\* call and is already 600 seconds old when the invocation returns.
C18_Witness ==
    /\ last.calls = 1
    /\ last.raised = "none"
    /\ last.took = CACHE_TTL
    /\ now = last.time + CACHE_TTL
    /\ EntryOf(cache, last.kind, last.city).timestamp = last.time
    /\ last.time > 0

====
